---- MODULE Spec2Model ----
(***************************************************************************)
(* Open-addressing hash maps of random_rusty_bits:                         *)
(*   hashmap/src/open_addressing/linear_probing.rs  (tombstone deletion)   *)
(*   hashmap/src/open_addressing/robin_hood.rs      (backward shift)       *)
(*   hashmap/src/open_addressing/cuckoo.rs          (two halves, eviction) *)
(* Each map is a record holding the fields of its HashMap struct; every    *)
(* public method is one action that runs the whole method, the private     *)
(* helpers are operators that compute what the Rust loops compute.  Each   *)
(* map is driven next to a reference associative array (the role of        *)
(* std::collections::HashMap in the proptests).                            *)
(***************************************************************************)
EXTENDS Integers, Sequences, FiniteSets, TLC

VARIABLES lp, lpModel, lpCall, rh, rhModel, rhCall, ck, ckModel, ckCall

vars == <<lp, lpModel, lpCall, rh, rhModel, rhCall, ck, ckModel, ckCall>>
lpVars == <<lp, lpModel, lpCall>>
rhVars == <<rh, rhModel, rhCall>>
ckVars == <<ck, ckModel, ckCall>>

(***************************************************************************)
(* Bounds of the model.                                                    *)
(***************************************************************************)
NumKeys == 3
NumVals == 2
MaxCap == 8
MaxCapCk == 4
MaxReq == 3
MaxOps == 8
MaxGrowOps == 5
MaxFillOps == 6

Keys == 1..NumKeys
Vals == 1..NumVals

(* Raw digests the seeded hasher may give a key.  3 and 7 collide under    *)
(* mask 3 and are told apart by mask 7; 2 and 3 are neighbouring home      *)
(* slots, so probe chains of different homes run into each other; 3 and 7  *)
(* sit on the last slot of a capacity-4 / capacity-8 buffer, so probing    *)
(* wraps around.                                                           *)
HashVals == {2, 3, 7}
(* Digests of the cuckoo hashers: 1 and 3 collide under mask 1 and are     *)
(* told apart by mask 3; both are below MaxCapCk, so two keys that collide *)
(* at the largest modelled capacity have the same raw digest.              *)
HashValsCk == {1, 3}

(* The seeds a map may draw.  Keys are interchangeable apart from their     *)
(* digests, so the keys are numbered in the order of their digests.        *)
Builders == {b \in [Keys -> HashVals] : \A i \in Keys, j \in Keys : i < j => b[i] <= b[j]}

(* crit_load_factor as a fraction <<numerator, denominator>>               *)
LoadFactors == {<<7, 10>>, <<9, 10>>}

INITIAL_CAP == 4
DEF_CRIT_LOAD_FACTOR == <<7, 10>>

(* value of a map variable while no map is alive: the specification does   *)
(* not construct that map, or the map has been dropped                     *)
Idle == [cap |-> 0]

(***************************************************************************)
(* Option<(K, V)> results and the reference associative array.             *)
(***************************************************************************)
None == [some |-> FALSE, key |-> 0, value |-> 0]
Some(k, v) == [some |-> TRUE, key |-> k, value |-> v]

EmptyModel == [k \in Keys |-> 0]
ModelGet(ref, k) == IF ref[k] = 0 THEN None ELSE Some(k, ref[k])
ModelLen(ref) == Cardinality({k \in Keys : ref[k] # 0})

(* x & y on naturals *)
RECURSIVE BitAnd(_, _)
BitAnd(x, y) ==
  IF x = 0 \/ y = 0 THEN 0
  ELSE (IF x % 2 = 1 /\ y % 2 = 1 THEN 1 ELSE 0) + 2 * BitAnd(x \div 2, y \div 2)

is_power_of_two(n) == n \in {1, 2, 4, 8, 16, 32, 64}

(* hash_key: the digest of key under the map's seeded hash_builder *)
hash_key(builder, key) == builder[key]

(* load_factor() > crit_load_factor; a never-allocated map reports INFINITY *)
LoadFactorExceeds(len, total_cap, lf) ==
  IF total_cap = 0 THEN TRUE ELSE len * lf[2] > lf[1] * total_cap

(***************************************************************************)
(* Linear probing with lazy deletion                                       *)
(***************************************************************************)
LPEmpty == [tag |-> "Empty", key |-> 0, value |-> 0]
LPDeleted == [tag |-> "Deleted", key |-> 0, value |-> 0]
LPOccupied(k, v) == [tag |-> "Occupied", key |-> k, value |-> v]

LPwith_load_factor(lf, builder) ==
  [buf |-> [i \in {} |-> LPEmpty], cap |-> 0, index_mask |-> 0, len |-> 0,
   hash_builder |-> builder, crit_load_factor |-> lf]

LPpreferred_index(m, hash) == BitAnd(hash, m.index_mask)

(* a load-factor check that asks for growth only when every slot is taken *)
LPload_factor_exceeded_AtFull(m) == m.cap = 0 \/ m.len >= m.cap

LPload_factor_exceeded(m) == LoadFactorExceeds(m.len, m.cap, m.crit_load_factor)

LPalloc_new_buf_initialized(new_cap) == [i \in 0..(new_cap - 1) |-> LPEmpty]

(* The probe loop of insert_unchecked from slot index on; steps counts the *)
(* slots visited.  A walk that has seen every slot without finding the     *)
(* key or a free slot repeats itself forever: hang.                        *)
RECURSIVE LPInsertLoop(_, _, _, _, _)
LPInsertLoop(m, key, value, index, steps) ==
  LET b == m.buf[index] IN
  IF steps >= m.cap THEN [map |-> m, ret |-> None, hang |-> TRUE]
  ELSE IF b.tag = "Occupied" /\ b.key = key
    THEN [map |-> [m EXCEPT !.buf[index] = LPOccupied(key, value)],
          ret |-> Some(b.key, b.value), hang |-> FALSE]
  ELSE IF b.tag = "Occupied"
    THEN LPInsertLoop(m, key, value, BitAnd(index + 1, m.index_mask), steps + 1)
  ELSE [map |-> [m EXCEPT !.buf[index] = LPOccupied(key, value), !.len = m.len + 1],
        ret |-> None, hang |-> FALSE]

LPinsert_unchecked(m, key, value) ==
  LPInsertLoop(m, key, value, LPpreferred_index(m, hash_key(m.hash_builder, key)), 0)

(* a loop of swap_buf that stops one slot short of the end of the old buffer *)
RECURSIVE LPSwapLoop_OneShort(_, _, _, _)
LPSwapLoop_OneShort(m, old_buf, old_cap, i) ==
  IF i + 1 >= old_cap THEN m
  ELSE IF old_buf[i].tag = "Occupied"
    THEN LPSwapLoop_OneShort(LPinsert_unchecked(m, old_buf[i].key, old_buf[i].value).map,
                             old_buf, old_cap, i + 1)
  ELSE LPSwapLoop_OneShort(m, old_buf, old_cap, i + 1)

(* The loop of swap_buf over the old buffer, from slot i on *)
RECURSIVE LPSwapLoop(_, _, _, _)
LPSwapLoop(m, old_buf, old_cap, i) ==
  IF i >= old_cap THEN m
  ELSE IF old_buf[i].tag = "Occupied"
    THEN LPSwapLoop(LPinsert_unchecked(m, old_buf[i].key, old_buf[i].value).map,
                    old_buf, old_cap, i + 1)
  ELSE LPSwapLoop(m, old_buf, old_cap, i + 1)

(* swap_buf that installs the new buffer and keeps the old index_mask *)
LPswap_buf_StaleMask(m, new_buf, new_cap) ==
  LPSwapLoop([m EXCEPT !.buf = new_buf, !.cap = new_cap, !.len = 0],
             m.buf, m.cap, 0)

LPswap_buf(m, new_buf, new_cap) ==
  LPSwapLoop([m EXCEPT !.buf = new_buf, !.cap = new_cap,
                       !.index_mask = new_cap - 1, !.len = 0],
             m.buf, m.cap, 0)

LPgrow_to(m, new_cap) ==
  IF new_cap <= m.cap THEN m
  ELSE LPswap_buf(m, LPalloc_new_buf_initialized(new_cap), new_cap)

LPNewCap(m) == IF m.cap = 0 THEN INITIAL_CAP ELSE 2 * m.cap

LPgrow(m) == LPgrow_to(m, LPNewCap(m))

(* The probe loop of get_bucket *)
RECURSIVE LPGetLoop(_, _, _, _)
LPGetLoop(m, key, index, steps) ==
  LET b == m.buf[index] IN
  IF steps >= m.cap THEN [found |-> FALSE, index |-> index, hang |-> TRUE]
  ELSE IF b.tag = "Occupied" /\ b.key = key
    THEN [found |-> TRUE, index |-> index, hang |-> FALSE]
  ELSE IF b.tag = "Empty"
    THEN [found |-> FALSE, index |-> index, hang |-> FALSE]
  ELSE LPGetLoop(m, key, BitAnd(index + 1, m.index_mask), steps + 1)

LPget_bucket(m, key) ==
  IF m.len = 0 THEN [found |-> FALSE, index |-> 0, hang |-> FALSE]
  ELSE LPGetLoop(m, key, LPpreferred_index(m, hash_key(m.hash_builder, key)), 0)

(* insert: the load-factor check, the grow, then insert_unchecked *)
LPinsert(m, key, value) ==
  LPinsert_unchecked(IF LPload_factor_exceeded(m) THEN LPgrow(m) ELSE m, key, value)

LPget(m, key) ==
  LET g == LPget_bucket(m, key) IN
  [map |-> m,
   ret |-> IF g.found THEN Some(m.buf[g.index].key, m.buf[g.index].value) ELSE None,
   hang |-> g.hang]

(* a remove that gives the buffer back when it takes the last entry *)
LPremove_Release(m, key) ==
  LET g == LPget_bucket(m, key) IN
  IF g.found /\ m.len = 1
    THEN [map |-> LPwith_load_factor(m.crit_load_factor, m.hash_builder),
          ret |-> Some(m.buf[g.index].key, m.buf[g.index].value), hang |-> FALSE]
  ELSE IF g.found
    THEN [map |-> [m EXCEPT !.buf[g.index] = LPDeleted, !.len = m.len - 1],
          ret |-> Some(m.buf[g.index].key, m.buf[g.index].value), hang |-> FALSE]
    ELSE [map |-> m, ret |-> None, hang |-> g.hang]

LPremove(m, key) ==
  LET g == LPget_bucket(m, key) IN
  IF g.found
    THEN [map |-> [m EXCEPT !.buf[g.index] = LPDeleted, !.len = m.len - 1],
          ret |-> Some(m.buf[g.index].key, m.buf[g.index].value), hang |-> FALSE]
    ELSE [map |-> m, ret |-> None, hang |-> g.hang]

(* The last call made on a map: its arguments, what it returned, what the  *)
(* reference array returned for the same call, whether it returned at all, *)
(* and the number of calls made so far.                                    *)
Call(op, key, value, ret, expect, returned, n) ==
  [op |-> op, key |-> key, value |-> value, ret |-> ret, expect |-> expect,
   returned |-> returned, n |-> n]

NoCall == Call("new", 0, 0, None, None, TRUE, 0)

LPInit ==
  /\ \E lf \in LoadFactors, builder \in Builders :
       lp = LPwith_load_factor(lf, builder)
  /\ lpModel = EmptyModel
  /\ lpCall = NoCall

LPInsert(key, value) ==
  /\ lp # Idle /\ lpCall.returned /\ lpCall.n < MaxOps
  /\ LPload_factor_exceeded(lp) => LPNewCap(lp) <= MaxCap
  /\ LET r == LPinsert(lp, key, value) IN
       /\ lp' = r.map
       /\ lpCall' = Call("insert", key, value, r.ret, ModelGet(lpModel, key), ~r.hang, lpCall.n + 1)
  /\ lpModel' = [lpModel EXCEPT ![key] = value]
  /\ UNCHANGED <<rhVars, ckVars>>

LPGet(key) ==
  /\ lp # Idle /\ lpCall.returned /\ lpCall.n < MaxOps
  /\ LET r == LPget(lp, key) IN
       /\ lp' = r.map
       /\ lpCall' = Call("get", key, 0, r.ret, ModelGet(lpModel, key), ~r.hang, lpCall.n + 1)
  /\ lpModel' = lpModel
  /\ UNCHANGED <<rhVars, ckVars>>

LPRemove(key) ==
  /\ lp # Idle /\ lpCall.returned /\ lpCall.n < MaxOps
  /\ LET r == LPremove(lp, key) IN
       /\ lp' = r.map
       /\ lpCall' = Call("remove", key, 0, r.ret, ModelGet(lpModel, key), ~r.hang, lpCall.n + 1)
  /\ lpModel' = [lpModel EXCEPT ![key] = 0]
  /\ UNCHANGED <<rhVars, ckVars>>

LPNext ==
  \/ \E key \in Keys, value \in Vals : LPInsert(key, value)
  \/ \E key \in Keys : LPGet(key)
  \/ \E key \in Keys : LPRemove(key)

(***************************************************************************)
(* Linear probing: properties                                              *)
(***************************************************************************)
LPLiveSlots(m, key) == {i \in DOMAIN m.buf : m.buf[i].tag = "Occupied" /\ m.buf[i].key = key}
LPStepped == lpCall'.n = lpCall.n + 1

(* C1: every call on the linear-probing map returns what the reference     *)
(* associative array returns for the same call, and len() equals the       *)
(* number of keys of the reference array.                                  *)
C1_ModelEquivalence ==
  lpCall.returned => /\ lpCall.ret = lpCall.expect
                     /\ lp.len = ModelLen(lpModel)

(* C4: update on insert.  When key k is held by an Occupied slot with      *)
(* value v, insert(k, v2) returns Some((k, v)), leaves len unchanged and a *)
(* following get(k) gives (k, v2); insert returns None only when no        *)
(* Occupied slot held k.                                                   *)
C4_UpdateOnInsert ==
  [][(LPStepped /\ lpCall'.op = "insert" /\ lpCall'.returned) =>
       LET k == lpCall'.key
           live == LPLiveSlots(lp, k)
       IN /\ live # {} =>
               /\ \E i \in live : lpCall'.ret = Some(k, lp.buf[i].value)
               /\ lp'.len = lp.len
               /\ LPget(lp', k).ret = Some(k, lpCall'.value)
          /\ lpCall'.ret = None => live = {}]_vars

(* C5: no key is held by two Occupied slots of the buffer.                 *)
C5_DistinctLiveKeys ==
  \A i \in DOMAIN lp.buf, j \in DOMAIN lp.buf :
    (i # j /\ lp.buf[i].tag = "Occupied" /\ lp.buf[j].tag = "Occupied")
      => lp.buf[i].key # lp.buf[j].key

(* C6: get and remove return (they do not probe forever), whatever the     *)
(* tombstones and however full the buffer.                                 *)
C6_LookupTerminates ==
  lpCall.op \in {"get", "remove"} => lpCall.returned

LPTombstones(m) == {i \in DOMAIN m.buf : m.buf[i].tag = "Deleted"}
LPOccupiedSlots(m) == {i \in DOMAIN m.buf : m.buf[i].tag = "Occupied"}

RHNone == [some |-> FALSE, key |-> 0, value |-> 0, hash |-> 0]
Bucket(k, v, h) == [some |-> TRUE, key |-> k, value |-> v, hash |-> h]

(* mod.rs round_up_to_power_of_two: v itself, or 2^(ilog2(v) + 1) *)
RECURSIVE ilog2(_)
ilog2(v) == IF v <= 1 THEN 0 ELSE 1 + ilog2(v \div 2)

RECURSIVE pow2(_)
pow2(e) == IF e = 0 THEN 1 ELSE 2 * pow2(e - 1)

round_up_to_power_of_two(v) ==
  IF is_power_of_two(v) THEN v ELSE pow2(ilog2(v) + 1)

RHalloc_new_buf_initialized(new_cap) == [i \in 0..(new_cap - 1) |-> RHNone]

(* the requested capacity rounded up, load factor and + 1.0 left out *)
RHRequestedCap_Exact(capacity, lf) ==
  round_up_to_power_of_two(capacity)

(* (capacity as f64 / lf + 1.0) as usize, then rounded up to a power of two *)
RHRequestedCap(capacity, lf) ==
  round_up_to_power_of_two((capacity * lf[2]) \div lf[1] + 1)

RHwith_capacity_and_load_factor(capacity, lf, builder) ==
  LET cap == IF capacity > 0 THEN RHRequestedCap(capacity, lf) ELSE 0 IN
  [buf |-> RHalloc_new_buf_initialized(cap), cap |-> cap,
   index_mask |-> IF capacity > 0 THEN cap - 1 ELSE 0, len |-> 0,
   hash_builder |-> builder, crit_load_factor |-> lf]

probe_len(m, orig_index, actual_index) ==
  IF actual_index < orig_index
    THEN (m.cap - orig_index) + actual_index
    ELSE actual_index - orig_index

RHpreferred_index(m, hash) == BitAnd(hash, m.index_mask)

(* a load-factor check that asks for growth only above a full buffer *)
RHload_factor_exceeded_AboveFull(m) == m.cap = 0 \/ m.len > m.cap

RHload_factor_exceeded(m) == LoadFactorExceeds(m.len, m.cap, m.crit_load_factor)

(* insert_unchecked without "rob the rich": the carried entry is never     *)
(* swapped with a resident of a smaller probe length.                      *)
RECURSIVE RHInsertLoop_NoRob(_, _, _, _, _)
RHInsertLoop_NoRob(m, bucket, index, plen, steps) ==
  LET val == m.buf[index] IN
  IF steps >= 2 * m.cap THEN [map |-> m, ret |-> None, hang |-> TRUE]
  ELSE IF val.some /\ val.key = bucket.key
    THEN [map |-> [m EXCEPT !.buf[index] = bucket],
          ret |-> Some(val.key, val.value), hang |-> FALSE]
  ELSE IF val.some
    THEN RHInsertLoop_NoRob(m, bucket, BitAnd(index + 1, m.index_mask), plen + 1, steps + 1)
  ELSE [map |-> [m EXCEPT !.buf[index] = bucket, !.len = m.len + 1],
        ret |-> None, hang |-> FALSE]

(* The loop of insert_unchecked: bucket is the carried entry, plen its     *)
(* probe length.  The loop ends only on a key match or an empty slot; a    *)
(* walk of two full rounds has met neither and never will: hang.           *)
RECURSIVE RHInsertLoop(_, _, _, _, _)
RHInsertLoop(m, bucket, index, plen, steps) ==
  LET val == m.buf[index]
      next == BitAnd(index + 1, m.index_mask)
      this_probe_len == probe_len(m, RHpreferred_index(m, val.hash), index)
  IN
  IF steps >= 2 * m.cap THEN [map |-> m, ret |-> None, hang |-> TRUE]
  ELSE IF val.some /\ val.key = bucket.key
    THEN [map |-> [m EXCEPT !.buf[index] = bucket],
          ret |-> Some(val.key, val.value), hang |-> FALSE]
  ELSE IF val.some
    THEN IF plen > this_probe_len
           THEN RHInsertLoop([m EXCEPT !.buf[index] = bucket], val, next,
                             this_probe_len + 1, steps + 1)
           ELSE RHInsertLoop(m, bucket, next, plen + 1, steps + 1)
  ELSE [map |-> [m EXCEPT !.buf[index] = bucket, !.len = m.len + 1],
        ret |-> None, hang |-> FALSE]

RHinsert_unchecked(m, bucket) ==
  RHInsertLoop(m, bucket, RHpreferred_index(m, bucket.hash), 0, 0)

(* a loop of swap_buf that copies each old entry to the slot of the same   *)
(* index in the new buffer instead of re-inserting it                      *)
RECURSIVE RHSwapLoop_SameSlot(_, _, _, _)
RHSwapLoop_SameSlot(m, old_buf, old_cap, i) ==
  IF i >= old_cap THEN m
  ELSE IF old_buf[i].some
    THEN RHSwapLoop_SameSlot([m EXCEPT !.buf[i] = old_buf[i], !.len = m.len + 1],
                             old_buf, old_cap, i + 1)
  ELSE RHSwapLoop_SameSlot(m, old_buf, old_cap, i + 1)

(* The loop of swap_buf over the old buffer, from slot i on *)
RECURSIVE RHSwapLoop(_, _, _, _)
RHSwapLoop(m, old_buf, old_cap, i) ==
  IF i >= old_cap THEN m
  ELSE IF old_buf[i].some
    THEN RHSwapLoop(RHinsert_unchecked(m, old_buf[i]).map, old_buf, old_cap, i + 1)
  ELSE RHSwapLoop(m, old_buf, old_cap, i + 1)

RHswap_buf(m, new_buf, new_cap) ==
  RHSwapLoop([m EXCEPT !.buf = new_buf, !.cap = new_cap,
                       !.index_mask = new_cap - 1, !.len = 0],
             m.buf, m.cap, 0)

RHgrow_to(m, new_cap) ==
  IF new_cap <= m.cap THEN m
  ELSE RHswap_buf(m, RHalloc_new_buf_initialized(new_cap), new_cap)

RHNewCap(m) == IF m.cap = 0 THEN INITIAL_CAP ELSE 2 * m.cap

RHgrow(m) == RHgrow_to(m, RHNewCap(m))

(* get_bucket that gives up at a resident whose probe length equals the    *)
(* walk's                                                                  *)
RECURSIVE RHGetLoop_Strict(_, _, _, _)
RHGetLoop_Strict(m, key, index, plen) ==
  LET b == m.buf[index]
      this_probe_len == probe_len(m, RHpreferred_index(m, b.hash), index)
  IN
  IF b.some /\ b.key = key THEN [found |-> TRUE, index |-> index]
  ELSE IF b.some /\ this_probe_len > plen
    THEN RHGetLoop_Strict(m, key, BitAnd(index + 1, m.index_mask), plen + 1)
  ELSE [found |-> FALSE, index |-> index]

(* The loop of get_bucket: ends at the key, at an empty slot, or at a      *)
(* resident whose probe length is below the walk's.                        *)
RECURSIVE RHGetLoop(_, _, _, _)
RHGetLoop(m, key, index, plen) ==
  LET b == m.buf[index]
      this_probe_len == probe_len(m, RHpreferred_index(m, b.hash), index)
  IN
  IF b.some /\ b.key = key THEN [found |-> TRUE, index |-> index]
  ELSE IF b.some /\ this_probe_len >= plen
    THEN RHGetLoop(m, key, BitAnd(index + 1, m.index_mask), plen + 1)
  ELSE [found |-> FALSE, index |-> index]

RHget_bucket(m, key) ==
  IF m.len = 0 THEN [found |-> FALSE, index |-> 0]
  ELSE RHGetLoop(m, key, RHpreferred_index(m, hash_key(m.hash_builder, key)), 0)

(* shift_probe_chain_down that moves one entry into the hole and stops *)
RHShiftLoop_Once(m, to_overwrite, index, steps) ==
  LET nxt == BitAnd(index + 1, m.index_mask)
      b == m.buf[nxt]
  IN
  IF b.some /\ RHpreferred_index(m, hash_key(m.hash_builder, b.key)) # nxt
    THEN [map |-> [m EXCEPT !.buf[to_overwrite] = b, !.buf[nxt] = RHNone], hang |-> FALSE]
    ELSE [map |-> m, hang |-> FALSE]

(* The loop of shift_probe_chain_down: to_overwrite is the hole, index the *)
(* slot before the one examined next.                                      *)
RECURSIVE RHShiftLoop(_, _, _, _)
RHShiftLoop(m, to_overwrite, index, steps) ==
  LET nxt == BitAnd(index + 1, m.index_mask)
      b == m.buf[nxt]
  IN
  IF steps >= 2 * m.cap THEN [map |-> m, hang |-> TRUE]
  ELSE IF b.some /\ RHpreferred_index(m, hash_key(m.hash_builder, b.key)) # nxt
    THEN RHShiftLoop([m EXCEPT !.buf[to_overwrite] = b, !.buf[nxt] = RHNone],
                     nxt, nxt, steps + 1)
  ELSE [map |-> m, hang |-> FALSE]

(* remove that clears the slot and leaves the hole in the probe chain *)
shift_probe_chain_down_NoShift(m, start_index) ==
  [map |-> [m EXCEPT !.buf[start_index] = RHNone], hang |-> FALSE]

shift_probe_chain_down(m, start_index) ==
  RHShiftLoop([m EXCEPT !.buf[start_index] = RHNone], start_index, start_index, 0)

RHinsert(m, key, value) ==
  LET g == IF RHload_factor_exceeded(m) THEN RHgrow(m) ELSE m IN
  RHinsert_unchecked(g, Bucket(key, value, hash_key(g.hash_builder, key)))

RHget(m, key) ==
  LET g == RHget_bucket(m, key) IN
  [map |-> m,
   ret |-> IF g.found THEN Some(m.buf[g.index].key, m.buf[g.index].value) ELSE None,
   hang |-> FALSE]

(* a remove that forgets to decrement len *)
RHremove_KeepLen(m, key) ==
  LET g == RHget_bucket(m, key)
      sh == shift_probe_chain_down(m, g.index)
  IN
  IF g.found
    THEN [map |-> sh.map,
          ret |-> Some(m.buf[g.index].key, m.buf[g.index].value), hang |-> sh.hang]
    ELSE [map |-> m, ret |-> None, hang |-> FALSE]

RHremove(m, key) ==
  LET g == RHget_bucket(m, key)
      sh == shift_probe_chain_down(m, g.index)
  IN
  IF g.found
    THEN [map |-> [sh.map EXCEPT !.len = m.len - 1],
          ret |-> Some(m.buf[g.index].key, m.buf[g.index].value), hang |-> sh.hang]
    ELSE [map |-> m, ret |-> None, hang |-> FALSE]

RHInit ==
  /\ \E capacity \in 0..MaxReq, lf \in LoadFactors, builder \in Builders :
       rh = RHwith_capacity_and_load_factor(capacity, lf, builder)
  /\ rhModel = EmptyModel
  /\ rhCall = NoCall

RHInsert(key, value) ==
  /\ rh # Idle /\ rhCall.returned /\ rhCall.n < MaxOps
  /\ RHload_factor_exceeded(rh) => RHNewCap(rh) <= MaxCap
  /\ LET r == RHinsert(rh, key, value) IN
       /\ rh' = r.map
       /\ rhCall' = Call("insert", key, value, r.ret, ModelGet(rhModel, key), ~r.hang, rhCall.n + 1)
  /\ rhModel' = [rhModel EXCEPT ![key] = value]
  /\ UNCHANGED <<lpVars, ckVars>>

RHGet(key) ==
  /\ rh # Idle /\ rhCall.returned /\ rhCall.n < MaxOps
  /\ LET r == RHget(rh, key) IN
       /\ rh' = r.map
       /\ rhCall' = Call("get", key, 0, r.ret, ModelGet(rhModel, key), ~r.hang, rhCall.n + 1)
  /\ rhModel' = rhModel
  /\ UNCHANGED <<lpVars, ckVars>>

RHRemove(key) ==
  /\ rh # Idle /\ rhCall.returned /\ rhCall.n < MaxOps
  /\ LET r == RHremove(rh, key) IN
       /\ rh' = r.map
       /\ rhCall' = Call("remove", key, 0, r.ret, ModelGet(rhModel, key), ~r.hang, rhCall.n + 1)
  /\ rhModel' = [rhModel EXCEPT ![key] = 0]
  /\ UNCHANGED <<lpVars, ckVars>>

RHNext ==
  \/ \E key \in Keys, value \in Vals : RHInsert(key, value)
  \/ \E key \in Keys : RHGet(key)
  \/ \E key \in Keys : RHRemove(key)

(***************************************************************************)
(* Robin Hood: properties                                                  *)
(***************************************************************************)
RHStepped == rhCall'.n = rhCall.n + 1
RHLive(m) == {i \in DOMAIN m.buf : m.buf[i].some}
RHDist(m, i) == probe_len(m, RHpreferred_index(m, m.buf[i].hash), i)
(* forward steps from slot a to slot b *)
RHSteps(m, a, b) == IF b >= a THEN b - a ELSE m.cap - a + b
(* b is reached from a by forward probing over occupied slots only *)
RHReachable(m, a, b) ==
  /\ a # b
  /\ \A s \in 0..RHSteps(m, a, b) : m.buf[(a + s) % m.cap].some

(* C2: every call on the Robin-Hood map returns, and returns what the      *)
(* reference associative array returns for the same call; len() equals the *)
(* number of keys of the reference array.                                  *)
C2_ModelEquivalence ==
  /\ rhCall.returned
  /\ rhCall.ret = rhCall.expect
  /\ rh.len = ModelLen(rhModel)

(* a remove that found its key in a map that still holds a displaced entry *)
C2_Witness ==
  /\ rhCall.op = "remove" /\ rhCall.ret.some
  /\ \E i \in RHLive(rh) : RHDist(rh, i) > 0

(* C9 as stated: of two live slots of one probe cluster, the one reached   *)
(* later by forward probing has a probe distance at least as large.        *)
C9_DistanceNonDecreasing ==
  \A a \in RHLive(rh), b \in RHLive(rh) :
    RHReachable(rh, a, b) => RHDist(rh, b) >= RHDist(rh, a)

(* C9 amended: of two live slots of one probe cluster, the one reached     *)
(* later by forward probing has a probe distance of at most the earlier    *)
(* one's plus the number of steps between them (its home slot is not       *)
(* before the earlier one's home slot).                                    *)
C9_HomesInOrder ==
  \A a \in RHLive(rh), b \in RHLive(rh) :
    RHReachable(rh, a, b) => RHDist(rh, b) <= RHDist(rh, a) + RHSteps(rh, a, b)

(* an insert has robbed a resident: the inserted entry sits away from its  *)
(* home slot and is directly followed by a displaced entry of another home *)
C9_Witness ==
  /\ rhCall.op = "insert" /\ rhCall.returned
  /\ \E a \in RHLive(rh), b \in RHLive(rh) :
       /\ RHReachable(rh, a, b) /\ RHSteps(rh, a, b) = 1
       /\ rh.buf[a].key = rhCall.key
       /\ RHDist(rh, a) > 0 /\ RHDist(rh, b) > 0
       /\ RHpreferred_index(rh, rh.buf[a].hash) # RHpreferred_index(rh, rh.buf[b].hash)

(* C28: the structural invariant of the Robin-Hood map.  Every live entry  *)
(* is reached from its home slot by forward probing over occupied slots    *)
(* only (no hole inside a probe chain, also after a backward-shift         *)
(* removal), and of two cyclically adjacent occupied slots the later one's *)
(* probe distance is at most the earlier one's plus one.                   *)
C28_ChainsUnbroken ==
  /\ \A i \in RHLive(rh) :
       \A s \in 0..RHDist(rh, i) :
         rh.buf[(RHpreferred_index(rh, rh.buf[i].hash) + s) % rh.cap].some
  /\ \A i \in RHLive(rh) :
       (rh.cap > 1 /\ (i + 1) % rh.cap \in RHLive(rh)) =>
         RHDist(rh, (i + 1) % rh.cap) <= RHDist(rh, i) + 1
  /\ rhCall.returned

(* a remove has just shifted a chain back that still holds an entry two    *)
(* slots away from its home                                                *)
C28_Witness ==
  /\ rhCall.op = "remove" /\ rhCall.ret.some /\ rh.len >= 2
  /\ \E i \in RHLive(rh) : RHDist(rh, i) >= 1
  /\ rh.cap = 2 * INITIAL_CAP

(* C14: with_capacity_and_load_factor(n, lf) with n >= 1 allocates a       *)
(* capacity that is a power of two and strictly greater than n / lf, and   *)
(* none of the first n inserts of distinct keys into the fresh map grows   *)
(* it.  (A map whose calls so far were all inserts of new keys has         *)
(* len = number of calls; with the capacity of with_capacity(n) it is the  *)
(* fresh map after those inserts.)                                         *)
C14_NoGrowWithinCapacity ==
  [][/\ \A n \in 1..MaxReq, lf \in LoadFactors :
          /\ is_power_of_two(RHRequestedCap(n, lf))
          /\ RHRequestedCap(n, lf) * lf[1] > n * lf[2]
     /\ (/\ RHStepped /\ rhCall'.op = "insert"
         /\ rh.len = rhCall.n /\ ModelLen(rhModel') = ModelLen(rhModel) + 1
         /\ \E n \in 1..MaxReq :
              /\ rh.cap = RHRequestedCap(n, rh.crit_load_factor)
              /\ ModelLen(rhModel') <= n)
        => rh'.cap = rh.cap /\ rh'.len = rh.len + 1]_vars

(* MaxReq distinct keys have been inserted into the map of                 *)
(* with_capacity(MaxReq), which still has the capacity it was built with   *)
C14_Witness ==
  /\ rhCall.op = "insert" /\ rhCall.n = MaxReq /\ rh.len = MaxReq
  /\ rh.crit_load_factor = DEF_CRIT_LOAD_FACTOR
  /\ rh.cap = RHRequestedCap(MaxReq, DEF_CRIT_LOAD_FACTOR)

(***************************************************************************)
(* Cuckoo hashing: two halves, bounded eviction                            *)
(***************************************************************************)
CKalloc_new_buf_initialized(new_cap) == [i \in 0..(new_cap - 1) |-> None]

(* (capacity as f64 / lf / 2.0 + 1.0) as usize, rounded up to a power of two *)
CKRequestedCap(capacity, lf) ==
  round_up_to_power_of_two((capacity * lf[2]) \div (2 * lf[1]) + 1)

CKwith_capacity_and_load_factor(capacity, lf, builder1, builder2) ==
  LET cap == IF capacity > 0 THEN CKRequestedCap(capacity, lf) ELSE 0 IN
  [buf1 |-> CKalloc_new_buf_initialized(cap),
   buf2 |-> CKalloc_new_buf_initialized(cap),
   cap |-> cap, index_mask |-> IF capacity > 0 THEN cap - 1 ELSE 0, len |-> 0,
   hash_builder1 |-> builder1, hash_builder2 |-> builder2,
   crit_load_factor |-> lf]

capacity(m) == m.cap * 2

CKpreferred_index(m, hash) == BitAnd(hash, m.index_mask)

hash_key1(m, key) == hash_key(m.hash_builder1, key)
hash_key2(m, key) == hash_key(m.hash_builder2, key)

CKload_factor_exceeded(m) == LoadFactorExceeds(m.len, capacity(m), m.crit_load_factor)

(* new_cap of grow as max(INITIAL_CAP, 2 * cap) *)
CKNewCap_Max(m) == IF 2 * m.cap < INITIAL_CAP THEN INITIAL_CAP ELSE 2 * m.cap

CKNewCap(m) == IF m.cap = 0 THEN INITIAL_CAP ELSE 2 * m.cap

(* Result of insert_unchecked: the map, the returned pair, hang when the   *)
(* call does not return, exhausted when the eviction bound i == cap was    *)
(* hit on the way.                                                         *)
CKResult(m, ret, hang, exhausted) ==
  [map |-> m, ret |-> ret, hang |-> hang, exhausted |-> exhausted]

RECURSIVE CKInsertLoop(_, _, _, _, _)
RECURSIVE CKinsert_unchecked(_, _, _)
RECURSIVE CKSwapLoop(_, _, _, _)

(* swap_buf that copies the old halves slot by slot instead of            *)
(* re-inserting their entries                                              *)
CKswap_buf_Copy(m, new_buf1, new_buf2, new_cap) ==
  [map |-> [m EXCEPT !.buf1 = [i \in DOMAIN new_buf1 |->
                                 IF i < m.cap THEN m.buf1[i] ELSE new_buf1[i]],
                     !.buf2 = [i \in DOMAIN new_buf2 |->
                                 IF i < m.cap THEN m.buf2[i] ELSE new_buf2[i]],
                     !.cap = new_cap, !.index_mask = new_cap - 1],
   hang |-> FALSE]

(* swap_buf: install the new halves, then re-insert the old half 1 and the *)
(* old half 2 (old_bufs is the two old halves one after the other).        *)
CKswap_buf(m, new_buf1, new_buf2, new_cap) ==
  CKSwapLoop([map |-> [m EXCEPT !.buf1 = new_buf1, !.buf2 = new_buf2, !.cap = new_cap,
                                !.index_mask = new_cap - 1, !.len = 0],
              hang |-> FALSE],
             [i \in 0..(2 * m.cap - 1) |->
                IF i < m.cap THEN m.buf1[i] ELSE m.buf2[i - m.cap]],
             2 * m.cap, 0)

CKgrow_to(m, new_cap) ==
  IF new_cap <= m.cap THEN [map |-> m, hang |-> FALSE]
  ELSE CKswap_buf(m, CKalloc_new_buf_initialized(new_cap),
                  CKalloc_new_buf_initialized(new_cap), new_cap)

(* grow that draws new seeds before it rehashes *)
CKgrow_Reseed(m) ==
  IF CKNewCap(m) > MaxCapCk THEN [map |-> m, hang |-> TRUE]
  ELSE CKgrow_to([m EXCEPT !.hash_builder1 = [k \in Keys |-> 4 - m.hash_builder1[k]],
                           !.hash_builder2 = [k \in Keys |-> 4 - m.hash_builder2[k]]],
                 CKNewCap(m))

(* grow.  Every digest is below MaxCapCk, so halves larger than MaxCapCk   *)
(* map every key to the slots it has at MaxCapCk: a chain that is          *)
(* exhausted there is exhausted again after every further grow, and the    *)
(* call keeps doubling the halves without ever returning (hang).           *)
CKgrow(m) ==
  IF CKNewCap(m) > MaxCapCk THEN [map |-> m, hang |-> TRUE]
  ELSE CKgrow_to(m, CKNewCap(m))

CKSwapLoop(r, old_bufs, n, i) ==
  IF i >= n \/ r.hang THEN r
  ELSE IF old_bufs[i].some
    THEN LET ins == CKinsert_unchecked(r.map, old_bufs[i].key, old_bufs[i].value)
         IN CKSwapLoop([map |-> ins.map, hang |-> ins.hang], old_bufs, n, i + 1)
  ELSE CKSwapLoop(r, old_bufs, n, i + 1)

(* an eviction loop that forgets the entry it carries when it grows *)
RECURSIVE CKInsertLoop_DropCarried(_, _, _, _, _)
CKInsertLoop_DropCarried(m, key, value, i, exhausted) ==
  LET index1 == CKpreferred_index(m, hash_key1(m, key))
      val1 == m.buf1[index1]
      m1 == [m EXCEPT !.buf1[index1] = Some(key, value)]
      index2 == CKpreferred_index(m1, hash_key2(m1, val1.key))
      val2 == m1.buf2[index2]
      m2 == [m1 EXCEPT !.buf2[index2] = Some(val1.key, val1.value)]
  IN
  IF val1.some /\ val1.key = key THEN CKResult(m1, val1, FALSE, exhausted)
  ELSE IF ~val1.some
    THEN CKResult([m1 EXCEPT !.len = m.len + 1], None, FALSE, exhausted)
  ELSE IF val2.some /\ val2.key = val1.key THEN CKResult(m2, val2, FALSE, exhausted)
  ELSE IF ~val2.some
    THEN CKResult([m2 EXCEPT !.len = m.len + 1], None, FALSE, exhausted)
  ELSE IF i + 1 = m2.cap
    THEN LET g == CKgrow(m2) IN
         IF g.hang THEN CKResult(g.map, None, TRUE, TRUE)
         ELSE CKResult(g.map, None, FALSE, TRUE)
  ELSE CKInsertLoop_DropCarried(m2, val2.key, val2.value, i + 1, exhausted)

(* One round of the eviction loop of insert_unchecked: half 1, then half 2 *)
(* with whatever half 1 evicted, then the bound check.                     *)
CKInsertLoop(m, key, value, i, exhausted) ==
  LET index1 == CKpreferred_index(m, hash_key1(m, key))
      val1 == m.buf1[index1]
      m1 == [m EXCEPT !.buf1[index1] = Some(key, value)]
      index2 == CKpreferred_index(m1, hash_key2(m1, val1.key))
      val2 == m1.buf2[index2]
      m2 == [m1 EXCEPT !.buf2[index2] = Some(val1.key, val1.value)]
  IN
  IF val1.some /\ val1.key = key THEN CKResult(m1, val1, FALSE, exhausted)
  ELSE IF ~val1.some
    THEN CKResult([m1 EXCEPT !.len = m.len + 1], None, FALSE, exhausted)
  ELSE IF val2.some /\ val2.key = val1.key THEN CKResult(m2, val2, FALSE, exhausted)
  ELSE IF ~val2.some
    THEN CKResult([m2 EXCEPT !.len = m.len + 1], None, FALSE, exhausted)
  ELSE IF i + 1 = m2.cap
    THEN LET g == CKgrow(m2) IN
         IF g.hang THEN CKResult(g.map, None, TRUE, TRUE)
         ELSE CKInsertLoop(g.map, val2.key, val2.value, 0, TRUE)
  ELSE CKInsertLoop(m2, val2.key, val2.value, i + 1, exhausted)

CKinsert_unchecked(m, key, value) ==
  LET index == CKpreferred_index(m, hash_key2(m, key))
      val == m.buf2[index]
  IN
  IF val.some /\ val.key = key
    THEN CKResult([m EXCEPT !.buf2[index] = Some(key, value)], val, FALSE, FALSE)
    ELSE CKInsertLoop(m, key, value, 0, FALSE)

CKget_bucket(m, key) ==
  LET index1 == CKpreferred_index(m, hash_key1(m, key))
      index2 == CKpreferred_index(m, hash_key2(m, key))
  IN
  IF m.len = 0 THEN [found |-> FALSE, half |-> 0, index |-> 0]
  ELSE IF m.buf1[index1].some /\ m.buf1[index1].key = key
    THEN [found |-> TRUE, half |-> 1, index |-> index1]
  ELSE IF m.buf2[index2].some /\ m.buf2[index2].key = key
    THEN [found |-> TRUE, half |-> 2, index |-> index2]
  ELSE [found |-> FALSE, half |-> 0, index |-> 0]

CKSlot(m, g) == IF g.half = 1 THEN m.buf1[g.index] ELSE m.buf2[g.index]

CKinsert(m, key, value) ==
  LET g == IF CKload_factor_exceeded(m) THEN CKgrow(m) ELSE [map |-> m, hang |-> FALSE]
  IN IF g.hang THEN CKResult(g.map, None, TRUE, FALSE)
     ELSE CKinsert_unchecked(g.map, key, value)

(* a get that moves an entry found in half 2 to its free slot of half 1 *)
CKget_Promote(m, key) ==
  LET g == CKget_bucket(m, key)
      index1 == CKpreferred_index(m, hash_key1(m, key))
  IN
  IF g.found /\ g.half = 2 /\ ~m.buf1[index1].some
    THEN CKResult([m EXCEPT !.buf1[index1] = m.buf2[g.index], !.buf2[g.index] = None],
                  CKSlot(m, g), FALSE, FALSE)
    ELSE CKResult(m, IF g.found THEN CKSlot(m, g) ELSE None, FALSE, FALSE)

CKget(m, key) ==
  LET g == CKget_bucket(m, key) IN
  CKResult(m, IF g.found THEN CKSlot(m, g) ELSE None, FALSE, FALSE)

(* a remove that clears both home slots of the key once one of them       *)
(* matched                                                                 *)
CKremove_BothHomes(m, key) ==
  LET g == CKget_bucket(m, key)
      index1 == CKpreferred_index(m, hash_key1(m, key))
      index2 == CKpreferred_index(m, hash_key2(m, key))
  IN
  IF g.found
    THEN CKResult([m EXCEPT !.buf1[index1] = None, !.buf2[index2] = None,
                            !.len = m.len - 1],
                  CKSlot(m, g), FALSE, FALSE)
    ELSE CKResult(m, None, FALSE, FALSE)

CKremove(m, key) ==
  LET g == CKget_bucket(m, key) IN
  IF g.found
    THEN CKResult([(IF g.half = 1 THEN [m EXCEPT !.buf1[g.index] = None]
                                   ELSE [m EXCEPT !.buf2[g.index] = None])
                     EXCEPT !.len = m.len - 1],
                  CKSlot(m, g), FALSE, FALSE)
    ELSE CKResult(m, None, FALSE, FALSE)

(* The last call on the cuckoo map; exhausted tells whether the eviction   *)
(* bound was hit during it.                                                *)
CkCall(op, key, value, ret, expect, returned, n, exhausted) ==
  [op |-> op, key |-> key, value |-> value, ret |-> ret, expect |-> expect,
   returned |-> returned, n |-> n, exhausted |-> exhausted]

CkNoCall == CkCall("new", 0, 0, None, None, TRUE, 0, FALSE)

(* The two seeds of a cuckoo map; the keys are numbered in the order of    *)
(* their digest pairs.                                                     *)
BuilderPairs ==
  {p \in [Keys -> HashValsCk] \X [Keys -> HashValsCk] :
     \A i \in Keys, j \in Keys :
       i < j => \/ p[1][i] < p[1][j]
                \/ p[1][i] = p[1][j] /\ p[2][i] <= p[2][j]}

CKInit ==
  /\ \E cap \in 0..MaxReq, lf \in LoadFactors, p \in BuilderPairs :
       ck = CKwith_capacity_and_load_factor(cap, lf, p[1], p[2])
  /\ ckModel = EmptyModel
  /\ ckCall = CkNoCall

CKInsert(key, value) ==
  /\ ck # Idle /\ ckCall.returned /\ ckCall.n < MaxOps
  /\ CKload_factor_exceeded(ck) => CKNewCap(ck) <= MaxCapCk
  /\ LET r == CKinsert(ck, key, value) IN
       /\ ck' = r.map
       /\ ckCall' = CkCall("insert", key, value, r.ret, ModelGet(ckModel, key),
                           ~r.hang, ckCall.n + 1, r.exhausted)
  /\ ckModel' = [ckModel EXCEPT ![key] = value]
  /\ UNCHANGED <<lpVars, rhVars>>

CKGet(key) ==
  /\ ck # Idle /\ ckCall.returned /\ ckCall.n < MaxOps
  /\ LET r == CKget(ck, key) IN
       /\ ck' = r.map
       /\ ckCall' = CkCall("get", key, 0, r.ret, ModelGet(ckModel, key),
                           ~r.hang, ckCall.n + 1, FALSE)
  /\ ckModel' = ckModel
  /\ UNCHANGED <<lpVars, rhVars>>

CKRemove(key) ==
  /\ ck # Idle /\ ckCall.returned /\ ckCall.n < MaxOps
  /\ LET r == CKremove(ck, key) IN
       /\ ck' = r.map
       /\ ckCall' = CkCall("remove", key, 0, r.ret, ModelGet(ckModel, key),
                           ~r.hang, ckCall.n + 1, FALSE)
  /\ ckModel' = [ckModel EXCEPT ![key] = 0]
  /\ UNCHANGED <<lpVars, rhVars>>

CKNext ==
  \/ \E key \in Keys, value \in Vals : CKInsert(key, value)
  \/ \E key \in Keys : CKGet(key)
  \/ \E key \in Keys : CKRemove(key)

(***************************************************************************)
(* Cuckoo: properties                                                      *)
(***************************************************************************)
CKStepped == ckCall'.n = ckCall.n + 1
CKLive1(m) == {i \in DOMAIN m.buf1 : m.buf1[i].some}
CKLive2(m) == {i \in DOMAIN m.buf2 : m.buf2[i].some}

(* C3: every call on the cuckoo map returns, and returns what the          *)
(* reference associative array returns for the same call; len() equals the *)
(* number of keys of the reference array.                                  *)
C3_ModelEquivalence ==
  /\ ckCall.returned
  /\ ckCall.ret = ckCall.expect
  /\ ck.len = ModelLen(ckModel)

(* C7: insert returns, also when the eviction bound is hit.                *)
C7_InsertTerminates ==
  ckCall.op = "insert" => ckCall.returned

(* C8 as stated: an insert that exhausts the eviction bound leaves the map *)
(* with reseeded hash functions, hash1 and hash2 both differ from the ones *)
(* that produced the exhausted chain.                                      *)
C8_ReseedOnExhaustion ==
  [][(CKStepped /\ ckCall'.exhausted) =>
       /\ ck'.hash_builder1 # ck.hash_builder1
       /\ ck'.hash_builder2 # ck.hash_builder2]_vars

(* C8 amended: an insert that exhausts the eviction bound keeps hash1 and  *)
(* hash2 as they were, and when it returns both halves have at least       *)
(* doubled.                                                                *)
C8_GrowKeepsSeeds ==
  [][(CKStepped /\ ckCall'.exhausted) =>
       /\ ck'.hash_builder1 = ck.hash_builder1
       /\ ck'.hash_builder2 = ck.hash_builder2
       /\ ckCall'.returned => (ck'.cap > ck.cap /\ ck'.cap >= 2 * ck.cap)]_vars

(* an insert hit the eviction bound, grew, and returned *)
C8_Witness ==
  ckCall.op = "insert" /\ ckCall.exhausted /\ ckCall.returned

(* C10: every occupied slot of half 1 sits at hash1(key) & index_mask and  *)
(* every occupied slot of half 2 at hash2(key) & index_mask.               *)
C10_CuckooInvariant ==
  /\ \A i \in CKLive1(ck) : i = CKpreferred_index(ck, hash_key1(ck, ck.buf1[i].key))
  /\ \A i \in CKLive2(ck) : i = CKpreferred_index(ck, hash_key2(ck, ck.buf2[i].key))

(* both halves hold entries after an insert that grew the map in the       *)
(* middle of an eviction chain                                             *)
C10_Witness ==
  /\ ckCall.exhausted /\ ckCall.returned
  /\ CKLive1(ck) # {} /\ CKLive2(ck) # {} /\ ck.len = NumKeys

(* C15: with_capacity(n) (the default load factor) makes a cuckoo map that *)
(* takes n pairs without reallocation: none of the first n inserts of      *)
(* distinct keys into the fresh map calls grow, whatever the digests of    *)
(* the keys; capacity() is unchanged.                                      *)
C15_NoGrowWithinCapacity ==
  [][(/\ CKStepped /\ ckCall'.op = "insert"
      /\ ck.crit_load_factor = DEF_CRIT_LOAD_FACTOR
      /\ ck.len = ckCall.n /\ ModelLen(ckModel') = ModelLen(ckModel) + 1
      /\ \E n \in 1..MaxReq :
           /\ ck.cap = CKRequestedCap(n, ck.crit_load_factor)
           /\ ModelLen(ckModel') <= n)
     => /\ ckCall'.returned /\ ~ckCall'.exhausted
        /\ capacity(ck') = capacity(ck)]_vars

(* tests::proptests::with_cap: will_be_lf = cap as f64 / map.capacity() as *)
(* f64 and the comparison will_be_lf < lf.  With capacity() = 0 the        *)
(* quotient is NaN (cap = 0) or infinite, and the comparison is false.     *)
will_be_lf_below(cap, m) ==
  IF capacity(m) = 0 THEN FALSE
  ELSE cap * m.crit_load_factor[2] < m.crit_load_factor[1] * capacity(m)

(* C16: for every requested cap (0 included) and load factor, the map of   *)
(* with_capacity_and_load_factor(cap, lf) has a per-half capacity that is  *)
(* a power of two, and cap / capacity() < lf.                              *)
C16_WithCap ==
  ckCall.op = "new" =>
    \A cap \in 0..MaxReq :
      ck = CKwith_capacity_and_load_factor(cap, ck.crit_load_factor,
                                           ck.hash_builder1, ck.hash_builder2)
        => is_power_of_two(ck.cap) /\ will_be_lf_below(cap, ck)

(***************************************************************************)
(* Clone and Drop of the three maps                                        *)
(***************************************************************************)
(* The loop of clone over the source buffer: every Occupied entry is       *)
(* inserted into the new map s with insert (load-factor check included).   *)
RECURSIVE LPCloneLoop(_, _, _)
LPCloneLoop(r, src, i) ==
  IF i >= src.cap \/ r.hang THEN r
  ELSE IF src.buf[i].tag = "Occupied"
    THEN LET ins == LPinsert(r.map, src.buf[i].key, src.buf[i].value)
         IN LPCloneLoop([map |-> ins.map, panic |-> FALSE, hang |-> ins.hang], src, i + 1)
  ELSE LPCloneLoop(r, src, i + 1)

(* clone: a map of capacity 0 with the source's seed and load factor,      *)
(* grow_to(self.cap), then the loop.  grow_to asserts that its argument is *)
(* a power of two before anything else: panic.                             *)
LPclone(m) ==
  LET s == [buf |-> [i \in {} |-> LPEmpty], cap |-> 0, index_mask |-> 0, len |-> 0,
            hash_builder |-> m.hash_builder, crit_load_factor |-> m.crit_load_factor]
  IN IF ~is_power_of_two(m.cap) THEN [map |-> s, panic |-> TRUE, hang |-> FALSE]
     ELSE LPCloneLoop([map |-> LPgrow_to(s, m.cap), panic |-> FALSE, hang |-> FALSE], m, 0)

(* The Robin-Hood clone re-inserts the cloned buckets with insert_unchecked *)
RECURSIVE RHCloneLoop(_, _, _)
RHCloneLoop(r, src, i) ==
  IF i >= src.cap \/ r.hang THEN r
  ELSE IF src.buf[i].some
    THEN LET ins == RHinsert_unchecked(r.map, src.buf[i])
         IN RHCloneLoop([map |-> ins.map, panic |-> FALSE, hang |-> ins.hang], src, i + 1)
  ELSE RHCloneLoop(r, src, i + 1)

RHclone(m) ==
  LET s == [buf |-> [i \in {} |-> RHNone], cap |-> 0, index_mask |-> 0, len |-> 0,
            hash_builder |-> m.hash_builder, crit_load_factor |-> m.crit_load_factor]
  IN IF ~is_power_of_two(m.cap) THEN [map |-> s, panic |-> TRUE, hang |-> FALSE]
     ELSE RHCloneLoop([map |-> RHgrow_to(s, m.cap), panic |-> FALSE, hang |-> FALSE], m, 0)

(* The cuckoo clone inserts half 1 of the source, then half 2, with insert *)
(* (bufs is the two halves one after the other).                           *)
RECURSIVE CKCloneLoop(_, _, _, _)
CKCloneLoop(r, bufs, n, i) ==
  IF i >= n \/ r.hang THEN r
  ELSE IF bufs[i].some
    THEN LET ins == CKinsert(r.map, bufs[i].key, bufs[i].value)
         IN CKCloneLoop([map |-> ins.map, panic |-> FALSE, hang |-> ins.hang], bufs, n, i + 1)
  ELSE CKCloneLoop(r, bufs, n, i + 1)

CKclone(m) ==
  LET s == [buf1 |-> [i \in {} |-> None], buf2 |-> [i \in {} |-> None],
            cap |-> 0, index_mask |-> 0, len |-> 0,
            hash_builder1 |-> m.hash_builder1, hash_builder2 |-> m.hash_builder2,
            crit_load_factor |-> m.crit_load_factor]
      g == CKgrow_to(s, m.cap)
  IN IF ~is_power_of_two(m.cap) THEN [map |-> s, panic |-> TRUE, hang |-> FALSE]
     ELSE CKCloneLoop([map |-> g.map, panic |-> FALSE, hang |-> g.hang],
                      [i \in 0..(2 * m.cap - 1) |->
                         IF i < m.cap THEN m.buf1[i] ELSE m.buf2[i - m.cap]],
                      2 * m.cap, 0)

(* The loop(s) of drop: drop_in_place on slot 0, 1, ... of the buffer(s).  *)
(* slots[i] tells whether slot i holds an entry and its key; panicking is  *)
(* the key whose destructor panics (0: none does).  ran[i] counts the runs *)
(* of the destructor of slot i.  A panic unwinds out of the loop and out   *)
(* of drop: the slots after it are not visited.                            *)
RECURSIVE DropLoop(_, _, _, _, _)
DropLoop(slots, n, panicking, i, ran) ==
  IF i >= n THEN [ran |-> ran, unwound |-> FALSE]
  ELSE IF slots[i].live
    THEN IF slots[i].key = panicking
           THEN [ran |-> [ran EXCEPT ![i] = @ + 1], unwound |-> TRUE]
           ELSE DropLoop(slots, n, panicking, i + 1, [ran EXCEPT ![i] = @ + 1])
  ELSE DropLoop(slots, n, panicking, i + 1, ran)

(* drop: nothing for capacity 0; else the loop(s), then dealloc of each of *)
(* the map's buffers, which a panic in the loop never reaches.             *)
DropOf(slots, n, buffers, panicking) ==
  LET d == DropLoop(slots, n, panicking, 0, [i \in 0..(n - 1) |-> 0]) IN
  [ran |-> d.ran, freed |-> IF d.unwound THEN 0 ELSE buffers, unwound |-> d.unwound]

LPSlots(m) == [i \in 0..(m.cap - 1) |-> [live |-> m.buf[i].tag = "Occupied", key |-> m.buf[i].key]]
RHSlots(m) == [i \in 0..(m.cap - 1) |-> [live |-> m.buf[i].some, key |-> m.buf[i].key]]
CKSlots(m) ==
  [i \in 0..(2 * m.cap - 1) |->
     IF i < m.cap THEN [live |-> m.buf1[i].some, key |-> m.buf1[i].key]
                  ELSE [live |-> m.buf2[i - m.cap].some, key |-> m.buf2[i - m.cap].key]]

LPdrop(m, panicking) == DropOf(LPSlots(m), m.cap, IF m.cap = 0 THEN 0 ELSE 1, panicking)
RHdrop(m, panicking) == DropOf(RHSlots(m), m.cap, IF m.cap = 0 THEN 0 ELSE 1, panicking)
CKdrop(m, panicking) == DropOf(CKSlots(m), 2 * m.cap, IF m.cap = 0 THEN 0 ELSE 2, panicking)

(* What drop owes: one destructor run per live entry, one dealloc per      *)
(* buffer.                                                                 *)
Owed(slots, n, buffers) ==
  [ran |-> [i \in 0..(n - 1) |-> IF slots[i].live THEN 1 ELSE 0], freed |-> buffers]

(* clone(): the driven map becomes the clone; a panic leaves the source.   *)
LPClone ==
  /\ lp # Idle /\ lpCall.returned /\ lpCall.n < MaxOps
  /\ LET r == LPclone(lp) IN
       /\ lp' = IF r.panic THEN lp ELSE r.map
       /\ lpCall' = Call("clone", 0, 0, None, None, ~r.panic /\ ~r.hang, lpCall.n + 1)
  /\ lpModel' = lpModel
  /\ UNCHANGED <<rhVars, ckVars>>

RHClone ==
  /\ rh # Idle /\ rhCall.returned /\ rhCall.n < MaxOps
  /\ LET r == RHclone(rh) IN
       /\ rh' = IF r.panic THEN rh ELSE r.map
       /\ rhCall' = Call("clone", 0, 0, None, None, ~r.panic /\ ~r.hang, rhCall.n + 1)
  /\ rhModel' = rhModel
  /\ UNCHANGED <<lpVars, ckVars>>

CKClone ==
  /\ ck # Idle /\ ckCall.returned /\ ckCall.n < MaxOps
  /\ LET r == CKclone(ck) IN
       /\ ck' = IF r.panic THEN ck ELSE r.map
       /\ ckCall' = CkCall("clone", 0, 0, None, None, ~r.panic /\ ~r.hang, ckCall.n + 1, FALSE)
  /\ ckModel' = ckModel
  /\ UNCHANGED <<lpVars, rhVars>>

(* drop: the map ends (and the reference array with it); the call record   *)
(* keeps what the destructor did (ret) next to what it owes (expect).      *)
LPDrop(panicking) ==
  /\ lp # Idle /\ lpCall.returned /\ lpCall.n < MaxOps
  /\ LET d == LPdrop(lp, panicking) IN
       lpCall' = Call("drop", panicking, 0, [ran |-> d.ran, freed |-> d.freed],
                      Owed(LPSlots(lp), lp.cap, IF lp.cap = 0 THEN 0 ELSE 1),
                      ~d.unwound, lpCall.n + 1)
  /\ lp' = Idle
  /\ lpModel' = EmptyModel
  /\ UNCHANGED <<rhVars, ckVars>>

RHDrop(panicking) ==
  /\ rh # Idle /\ rhCall.returned /\ rhCall.n < MaxOps
  /\ LET d == RHdrop(rh, panicking) IN
       rhCall' = Call("drop", panicking, 0, [ran |-> d.ran, freed |-> d.freed],
                      Owed(RHSlots(rh), rh.cap, IF rh.cap = 0 THEN 0 ELSE 1),
                      ~d.unwound, rhCall.n + 1)
  /\ rh' = Idle
  /\ rhModel' = EmptyModel
  /\ UNCHANGED <<lpVars, ckVars>>

CKDrop(panicking) ==
  /\ ck # Idle /\ ckCall.returned /\ ckCall.n < MaxOps
  /\ LET d == CKdrop(ck, panicking) IN
       ckCall' = CkCall("drop", panicking, 0, [ran |-> d.ran, freed |-> d.freed],
                        Owed(CKSlots(ck), 2 * ck.cap, IF ck.cap = 0 THEN 0 ELSE 2),
                        ~d.unwound, ckCall.n + 1, FALSE)
  /\ ck' = Idle
  /\ ckModel' = EmptyModel
  /\ UNCHANGED <<lpVars, rhVars>>

LifeNext ==
  \/ LPClone
  \/ RHClone
  \/ CKClone
  \/ \E panicking \in Keys \cup {0} : LPDrop(panicking)
  \/ \E panicking \in Keys \cup {0} : RHDrop(panicking)
  \/ \E panicking \in Keys \cup {0} : CKDrop(panicking)

(***************************************************************************)
(* Properties of all three maps                                            *)
(***************************************************************************)
(* capacity is zero or a power of two, index_mask is capacity - 1 when     *)
(* capacity > 0, and len is at most slots                                  *)
ShapeOk(m, slots) ==
  /\ m.cap = 0 \/ is_power_of_two(m.cap)
  /\ m.cap > 0 => m.index_mask = m.cap - 1
  /\ m.len <= slots

(* C11: after every public operation, in each of the three maps, capacity  *)
(* is zero or a power of two and index_mask = capacity - 1 when capacity   *)
(* is positive; len <= capacity in the linear-probing and Robin-Hood maps, *)
(* len <= 2 * capacity (capacity per half) in the cuckoo map.              *)
C11_Shape ==
  /\ lp # Idle => ShapeOk(lp, lp.cap)
  /\ rh # Idle => ShapeOk(rh, rh.cap)
  /\ ck # Idle => ShapeOk(ck, 2 * ck.cap)

(* a map that has grown twice and been cloned holds every key *)
C11_Witness ==
  \/ lp # Idle /\ lpCall.op = "clone" /\ lpCall.returned /\ lp.cap = 2 * INITIAL_CAP /\ lp.len = NumKeys
  \/ rh # Idle /\ rhCall.op = "clone" /\ rhCall.returned /\ rh.cap = 2 * INITIAL_CAP /\ rh.len = NumKeys
  \/ ck # Idle /\ ckCall.op = "clone" /\ ckCall.returned /\ ck.cap = INITIAL_CAP /\ ck.len = NumKeys

(* C12: dropping a map runs the destructor of every still-live entry       *)
(* exactly once and deallocates each buffer exactly once, also when the    *)
(* destructor of one entry panics: the entries in the slots after it are   *)
(* still dropped and the buffer is still freed.                            *)
C12_DropReleasesAll ==
  /\ lpCall.op = "drop" => lpCall.ret = lpCall.expect
  /\ rhCall.op = "drop" => rhCall.ret = rhCall.expect
  /\ ckCall.op = "drop" => ckCall.ret = ckCall.expect

(* C13: clone() is defined for every reachable map, a never-allocated map  *)
(* of capacity 0 included: it returns, and the map it returns has the len  *)
(* of the source and gives for every key what the source gives.            *)
C13_CloneRebuilds ==
  [][/\ (LPStepped /\ lpCall'.op = "clone") =>
          /\ lpCall'.returned
          /\ lp'.len = lp.len
          /\ \A k \in Keys : LPget(lp', k).ret = LPget(lp, k).ret
     /\ (RHStepped /\ rhCall'.op = "clone") =>
          /\ rhCall'.returned
          /\ rh'.len = rh.len
          /\ \A k \in Keys : RHget(rh', k).ret = RHget(rh, k).ret
     /\ (CKStepped /\ ckCall'.op = "clone") =>
          /\ ckCall'.returned
          /\ ck'.len = ck.len
          /\ \A k \in Keys : CKget(ck', k).ret = CKget(ck, k).ret]_vars

Max(a, b) == IF a >= b THEN a ELSE b

(* INITIAL_CAP from capacity 0, twice the capacity otherwise *)
GrowsTo(cap) == IF cap = 0 THEN INITIAL_CAP ELSE 2 * cap

(* C17 as stated: every grow, in each of the three maps and from every     *)
(* reachable capacity, sets the capacity to max(INITIAL_CAP, 2 * old       *)
(* capacity).  (An insert that changes the capacity has grown the map; a   *)
(* cuckoo insert that exhausts its eviction bound may grow more than once  *)
(* and is left out.)                                                       *)
C17_GrowthPolicyMax ==
  [][/\ (LPStepped /\ lpCall'.op = "insert" /\ lp'.cap # lp.cap)
          => lp'.cap = Max(INITIAL_CAP, 2 * lp.cap)
     /\ (RHStepped /\ rhCall'.op = "insert" /\ rh'.cap # rh.cap)
          => rh'.cap = Max(INITIAL_CAP, 2 * rh.cap)
     /\ (CKStepped /\ ckCall'.op = "insert" /\ ck'.cap # ck.cap /\ ~ckCall'.exhausted)
          => ck'.cap = Max(INITIAL_CAP, 2 * ck.cap)]_vars

(* C17 amended: every grow sets the capacity to INITIAL_CAP when the old   *)
(* capacity is 0 and to twice the old capacity otherwise (a map of         *)
(* capacity 1 grows to 2); a cuckoo insert that exhausts its eviction      *)
(* bound after a load-factor grow has grown twice by the same rule.        *)
C17_GrowthDoubles ==
  [][/\ (LPStepped /\ lpCall'.op = "insert" /\ lp'.cap # lp.cap)
          => lp'.cap = GrowsTo(lp.cap)
     /\ (RHStepped /\ rhCall'.op = "insert" /\ rh'.cap # rh.cap)
          => rh'.cap = GrowsTo(rh.cap)
     /\ (CKStepped /\ ckCall'.op = "insert" /\ ck'.cap # ck.cap /\ ~ckCall'.exhausted)
          => ck'.cap = GrowsTo(ck.cap)
     /\ (CKStepped /\ ckCall'.op = "insert" /\ ckCall'.exhausted /\ ckCall'.returned)
          => ck'.cap \in {GrowsTo(ck.cap), GrowsTo(GrowsTo(ck.cap))}]_vars

(* the state the cuckoo map of with_capacity(1) is in after its third      *)
(* call, an insert that found the two slots full, grew the halves from 1   *)
(* to 2 and rehashed both entries before it replaced the value of its key  *)
C17_Witness ==
  /\ ck # Idle /\ ckCall.op = "insert" /\ ckCall.returned /\ ~ckCall.exhausted
  /\ ckCall.n = 3 /\ ckCall.ret.some
  /\ ck.cap = 2 /\ ck.len = 2 /\ CKLive1(ck) # {} /\ CKLive2(ck) # {}

(***************************************************************************)
(* The worked scenarios: keys 1..6 under hash(k) = k mod 4, the calls of   *)
(* tests::insert and tests::remove in their order, any values.             *)
(***************************************************************************)
ScenarioKeys == 1..6
ScenarioHash == [k \in ScenarioKeys |-> k % 4]
ScenarioInserts == <<1, 2, 3, 5, 4>>
ScenarioModel == [k \in ScenarioKeys |-> 0]

(* what a get in a scenario has to return: the pair last inserted *)
ScenarioGot(ref, key) == IF ref[key] = 0 THEN None ELSE Some(key, ref[key])

(* C18 as stated (scenario A): the inserts of 1, 2, 3, 5 fill the four     *)
(* slots of capacity 4 without a grow, 5 in the slot after the home of 1;  *)
(* the insert of 4 grows the buffer to capacity 8; afterwards get(6) is    *)
(* None and get of 1, 2, 3, 4, 5 returns the key with its value.           *)
C18_ScenarioA ==
  /\ lpCall.n \in 1..4 => lp.cap = 4
  /\ lpCall.n = 4 =>
       /\ \A i \in 0..3 : lp.buf[i].tag = "Occupied"
       /\ \E i \in 0..3 : lp.buf[i].key = 5 /\ i # ScenarioHash[5]
  /\ lpCall.n >= 5 => lp.cap = 8
  /\ lpCall.op = "get" =>
       /\ lpCall.returned
       /\ lpCall.ret = IF lpCall.key = 6 THEN None ELSE Some(lpCall.key, lpModel[lpCall.key])

(* C18 amended: the inserts of 1, 2, 3 take slots 1, 2, 3 of capacity 4;   *)
(* the insert of 5 finds the load 3/4 above 0.7 and grows the buffer to    *)
(* capacity 8 before it probes, so 5 lands in slot 4 (home 1, slots 1..3   *)
(* taken); the insert of 4 takes slot 0 without a grow; afterwards get(6)  *)
(* is None and get of 1, 2, 3, 4, 5 returns the key with its value.        *)
C18_ScenarioAGrowsAtFourth ==
  /\ lpCall.n \in 1..3 =>
       /\ lp.cap = 4
       /\ \A k \in 1..lpCall.n : lp.buf[k].tag = "Occupied" /\ lp.buf[k].key = k
  /\ lpCall.n >= 4 =>
       /\ lp.cap = 8
       /\ lp.buf[4].tag = "Occupied" /\ lp.buf[4].key = 5
  /\ lpCall.n >= 5 =>
       /\ lp.len = 5
       /\ lp.buf[0].tag = "Occupied" /\ lp.buf[0].key = 4
  /\ lpCall.op = "get" =>
       /\ lpCall.returned
       /\ lpCall.ret = IF lpCall.key = 6 THEN None ELSE Some(lpCall.key, lpModel[lpCall.key])

(* after the five inserts: get(5) walked slots 1, 2, 3 and found 5 in 4 *)
C18_Witness ==
  /\ lpCall.op = "get" /\ lpCall.key = 5 /\ lpCall.ret.some
  /\ lp.cap = 8 /\ lp.len = 5

(* no occupied slot with a non-zero probe distance directly follows an     *)
(* empty slot                                                              *)
RobinHoodInvariant(m) ==
  \A i \in RHLive(m) :
    RHDist(m, i) > 0 => m.buf[(i + m.cap - 1) % m.cap].some

(* C19 (scenario B): after the inserts of 1, 2, 3, 5, 4 (capacity 8) and   *)
(* remove(2), get(2) is None, get of 1, 3, 4, 5 returns the key with its   *)
(* value, len is 4 and the Robin-Hood invariant check passes.              *)
C19_ScenarioB ==
  /\ rhCall.returned
  /\ rhCall.n >= 5 => rh.cap = 8
  /\ rhCall.n >= 6 =>
       /\ rh.len = 4
       /\ RobinHoodInvariant(rh)
       /\ RHget(rh, 2).ret = None
       /\ \A k \in {1, 3, 4, 5} : RHget(rh, k).ret = Some(k, rhModel[k])
  /\ rhCall.op = "get" => rhCall.ret = ScenarioGot(rhModel, rhCall.key)

(* remove(2) found 2 displaced in slot 3 behind 5 and shifted 3 back to    *)
(* its home; 5 stays displaced in slot 2                                   *)
C19_Witness ==
  /\ rhCall.op = "remove" /\ rhCall.n = 6 /\ rhCall.ret.some /\ rhCall.ret.key = 2
  /\ rh.buf[2].some /\ rh.buf[2].key = 5 /\ RHDist(rh, 2) = 1
  /\ rh.buf[3].some /\ rh.buf[3].key = 3
  /\ ~rh.buf[4].some

(* the seeded hasher gives every key the same digest *)
SameHash(m) == \A k \in Keys : hash_key(m.hash_builder, k) = hash_key(m.hash_builder, 1)

(* C20: in a Robin-Hood map whose keys all have the same hash (one probe   *)
(* chain), every call returns; a remove returns Some((key, value)) for a   *)
(* key that is in the map and None for one already removed; after every    *)
(* call each key still in the map is retrievable with its value and the    *)
(* removed ones are not; the map is empty when all are removed.            *)
C20_SameHashRemove ==
  SameHash(rh) =>
    /\ rhCall.returned
    /\ rhCall.op = "remove" => rhCall.ret = rhCall.expect
    /\ \A k \in Keys : RHget(rh, k).ret = ModelGet(rhModel, k)
    /\ rh.len = ModelLen(rhModel)
    /\ ModelLen(rhModel) = 0 => RHLive(rh) = {}

(* all keys were inserted into one probe chain and the key at the head of  *)
(* the chain has just been removed: the rest has shifted down              *)
C20_Witness ==
  /\ SameHash(rh)
  /\ rhCall.op = "remove" /\ rhCall.ret.some
  /\ rhCall.n = NumKeys + 1 /\ rh.len = NumKeys - 1
  /\ \E i \in RHLive(rh) : RHDist(rh, i) = 0
  /\ \A i \in RHLive(rh) : RHDist(rh, i) < NumKeys - 1

(* the two slots get_bucket looks at for key: <<half, index>> *)
CKHomes(m, key) ==
  {<<1, CKpreferred_index(m, hash_key1(m, key))>>,
   <<2, CKpreferred_index(m, hash_key2(m, key))>>}

(* the cuckoo map with slot s emptied and len one less *)
CKCleared(m, s) ==
  [(IF s[1] = 1 THEN [m EXCEPT !.buf1[s[2]] = None] ELSE [m EXCEPT !.buf2[s[2]] = None])
     EXCEPT !.len = m.len - 1]

(* the slots of the cuckoo map that hold key *)
CKLiveSlots(m, key) ==
  {<<1, i>> : i \in {j \in DOMAIN m.buf1 : m.buf1[j].some /\ m.buf1[j].key = key}}
    \cup {<<2, i>> : i \in {j \in DOMAIN m.buf2 : m.buf2[j].some /\ m.buf2[j].key = key}}

RHLiveSlots(m, key) == {i \in RHLive(m) : m.buf[i].key = key}

(* C22: in each of the three maps, remove of a key that no slot holds      *)
(* returns, returns None, and leaves len, capacity and every slot as they  *)
(* were; a never-allocated map included.                                   *)
C22_RemoveAbsent ==
  [][/\ (LPStepped /\ lpCall'.op = "remove" /\ LPLiveSlots(lp, lpCall'.key) = {})
          => (lpCall'.returned /\ lpCall'.ret = None /\ lp' = lp)
     /\ (RHStepped /\ rhCall'.op = "remove" /\ RHLiveSlots(rh, rhCall'.key) = {})
          => (rhCall'.returned /\ rhCall'.ret = None /\ rh' = rh)
     /\ (CKStepped /\ ckCall'.op = "remove" /\ CKLiveSlots(ck, ckCall'.key) = {})
          => (ckCall'.returned /\ ckCall'.ret = None /\ ck' = ck)]_vars

(* C23: get is read-only in all three maps: a get of any key, present or  *)
(* absent, leaves len, capacity, mask and every slot (both halves of the   *)
(* cuckoo map) as they were.                                               *)
C23_GetReadOnly ==
  [][/\ (LPStepped /\ lpCall'.op = "get") => lp' = lp
     /\ (RHStepped /\ rhCall'.op = "get") => rh' = rh
     /\ (CKStepped /\ ckCall'.op = "get") => ck' = ck]_vars

(* a get has found its key in half 2 of the cuckoo map while the key's     *)
(* slot of half 1 is free                                                  *)
C23_Witness ==
  /\ ck # Idle /\ ckCall.op = "get" /\ ckCall.ret.some
  /\ \E i \in CKLive2(ck) : ck.buf2[i].key = ckCall.key
  /\ ~ck.buf1[CKpreferred_index(ck, hash_key1(ck, ckCall.key))].some

(* a map just built by new() has capacity 0, len 0 and no buffer *)
NewIsUnallocated ==
  /\ (lp # Idle /\ lpCall.op = "new") =>
       lp.cap = 0 /\ lp.len = 0 /\ DOMAIN lp.buf = {}
  /\ (rh # Idle /\ rhCall.op = "new"
        /\ rh = RHwith_capacity_and_load_factor(0, DEF_CRIT_LOAD_FACTOR, rh.hash_builder)) =>
       rh.cap = 0 /\ rh.len = 0 /\ DOMAIN rh.buf = {}
  /\ (ck # Idle /\ ckCall.op = "new"
        /\ ck = CKwith_capacity_and_load_factor(0, DEF_CRIT_LOAD_FACTOR,
                                                ck.hash_builder1, ck.hash_builder2)) =>
       ck.cap = 0 /\ ck.len = 0 /\ DOMAIN ck.buf1 = {} /\ DOMAIN ck.buf2 = {}

(* get and remove keep the capacity; insert never lowers it, and on a      *)
(* never-allocated map it allocates INITIAL_CAP slots and writes its entry *)
CapacityStep ==
  /\ (LPStepped /\ lpCall'.op \in {"get", "remove"}) => lp'.cap = lp.cap
  /\ (RHStepped /\ rhCall'.op \in {"get", "remove"}) => rh'.cap = rh.cap
  /\ (CKStepped /\ ckCall'.op \in {"get", "remove"}) => ck'.cap = ck.cap
  /\ (LPStepped /\ lpCall'.op = "insert") =>
       /\ lp'.cap >= lp.cap
       /\ lp.cap = 0 => (lp'.cap = INITIAL_CAP /\ lp'.len = 1)
  /\ (RHStepped /\ rhCall'.op = "insert") =>
       /\ rh'.cap >= rh.cap
       /\ rh.cap = 0 => (rh'.cap = INITIAL_CAP /\ rh'.len = 1)
  /\ (CKStepped /\ ckCall'.op = "insert") =>
       /\ ck'.cap >= ck.cap
       /\ ck.cap = 0 => (ck'.cap = INITIAL_CAP /\ ck'.len = 1)

(* C24: lifecycle.  A map built by new() has capacity 0, len 0 and no      *)
(* buffer; the first insert into it allocates INITIAL_CAP slots and then   *)
(* writes its entry; under insert, get and remove calls the capacity never *)
(* decreases, and it changes only inside an insert.                        *)
C24_Lifecycle == []NewIsUnallocated /\ [][CapacityStep]_vars

(* a linear-probing map from new() after its first insert and the remove   *)
(* of that entry: empty again, the buffer of INITIAL_CAP slots kept        *)
C24_Witness ==
  /\ lp # Idle /\ lpCall.op = "remove" /\ lpCall.ret.some /\ lpCall.n = 2
  /\ lp.len = 0 /\ lp.cap = INITIAL_CAP

(* the map as insert's debug assertion sees it: after the load-factor      *)
(* check and the grow it may have called                                   *)
LPChecked(m) == IF LPload_factor_exceeded(m) THEN LPgrow(m) ELSE m
RHChecked(m) == IF RHload_factor_exceeded(m) THEN RHgrow(m) ELSE m
CKChecked(m) == IF CKload_factor_exceeded(m) THEN CKgrow(m) ELSE [map |-> m, hang |-> FALSE]

(* C26: in every state a map can be in when insert is called, the debug    *)
(* assertion of insert holds after the load-factor check and the grow:     *)
(* len < cap for the linear-probing and the Robin-Hood map, len < 2 * cap  *)
(* for the cuckoo map, so insert_unchecked finds at least one free slot.   *)
C26_InsertHasRoom ==
  /\ (lp # Idle /\ lpCall.returned /\ (LPload_factor_exceeded(lp) => LPNewCap(lp) <= MaxCap)) =>
       /\ LPChecked(lp).len < LPChecked(lp).cap
       /\ \E i \in DOMAIN LPChecked(lp).buf : LPChecked(lp).buf[i].tag # "Occupied"
  /\ (rh # Idle /\ rhCall.returned /\ (RHload_factor_exceeded(rh) => RHNewCap(rh) <= MaxCap)) =>
       /\ RHChecked(rh).len < RHChecked(rh).cap
       /\ \E i \in DOMAIN RHChecked(rh).buf : ~RHChecked(rh).buf[i].some
  /\ (ck # Idle /\ ckCall.returned /\ (CKload_factor_exceeded(ck) => CKNewCap(ck) <= MaxCapCk)
        /\ ~CKChecked(ck).hang) =>
       /\ CKChecked(ck).map.len < 2 * CKChecked(ck).map.cap
       /\ \/ \E i \in DOMAIN CKChecked(ck).map.buf1 : ~CKChecked(ck).map.buf1[i].some
          \/ \E i \in DOMAIN CKChecked(ck).map.buf2 : ~CKChecked(ck).map.buf2[i].some

(* a Robin-Hood map of load factor 0.9 with three of its four slots taken: *)
(* the check lets the next insert go ahead without a grow, one slot free   *)
C26_Witness ==
  /\ rh # Idle /\ rhCall.op = "insert" /\ rhCall.returned
  /\ rh.crit_load_factor = <<9, 10>> /\ rh.cap = INITIAL_CAP /\ rh.len = INITIAL_CAP - 1
  /\ ~RHload_factor_exceeded(rh)

(* C27: cuckoo remove of a present key returns the entry, empties exactly  *)
(* the one slot that held it (half 1 at hash1(key) or half 2 at            *)
(* hash2(key)), lowers len by one and leaves every other slot of both      *)
(* halves and the capacity as they were; what get and remove return is     *)
(* read from those two slots.                                              *)
C27_RemoveClearsOneSlot ==
  [][/\ (CKStepped /\ ckCall'.op = "remove" /\ CKLiveSlots(ck, ckCall'.key) # {}) =>
          /\ ckCall'.returned /\ ckCall'.ret.some /\ ckCall'.ret.key = ckCall'.key
          /\ \E s \in CKHomes(ck, ckCall'.key) :
               /\ CKLiveSlots(ck, ckCall'.key) = {s}
               /\ ck' = CKCleared(ck, s)
     /\ (CKStepped /\ ckCall'.op \in {"get", "remove"}) =>
          \/ ckCall'.ret = None /\ CKHomes(ck, ckCall'.key) \cap CKLiveSlots(ck, ckCall'.key) = {}
          \/ \E s \in CKHomes(ck, ckCall'.key) \cap CKLiveSlots(ck, ckCall'.key) :
               ckCall'.ret = IF s[1] = 1 THEN ck.buf1[s[2]] ELSE ck.buf2[s[2]]]_vars

(* a remove has taken its key out of half 2 while the key's slot of half 1 *)
(* holds another key, which stays                                          *)
C27_Witness ==
  /\ ck # Idle /\ ckCall.op = "remove" /\ ckCall.ret.some
  /\ ck.buf1[CKpreferred_index(ck, hash_key1(ck, ckCall.key))].some
  /\ ~ck.buf2[CKpreferred_index(ck, hash_key2(ck, ckCall.key))].some
  /\ ck.len >= 1

(* the keys held by the cuckoo map *)
CKKeys(m) == {k \in Keys : CKLiveSlots(m, k) # {}}

is_empty(m) == m.len = 0

(* C30: after every public operation that returned, len of each map is    *)
(* the number of occupied slots of its buffer (Occupied for linear         *)
(* probing, Some for Robin Hood, Some in either half for cuckoo), and      *)
(* is_empty() is true exactly when no slot is occupied.                    *)
C30_LenCountsSlots ==
  /\ (lp # Idle /\ lpCall.returned) =>
       /\ lp.len = Cardinality(LPOccupiedSlots(lp))
       /\ is_empty(lp) <=> LPOccupiedSlots(lp) = {}
  /\ (rh # Idle /\ rhCall.returned) =>
       /\ rh.len = Cardinality(RHLive(rh))
       /\ is_empty(rh) <=> RHLive(rh) = {}
  /\ (ck # Idle /\ ckCall.returned) =>
       /\ ck.len = Cardinality(CKLive1(ck)) + Cardinality(CKLive2(ck))
       /\ is_empty(ck) <=> (CKLive1(ck) = {} /\ CKLive2(ck) = {})

(* a Robin-Hood map of eight slots is empty again after the remove of the  *)
(* last key it held                                                        *)
C30_Witness ==
  /\ rh # Idle /\ rhCall.op = "remove" /\ rhCall.ret.some
  /\ is_empty(rh) /\ rh.cap = 2 * INITIAL_CAP /\ RHLive(rh) = {}

(***************************************************************************)
(* Insert-only use of the linear-probing map                               *)
(***************************************************************************)
(* the hashers of the insert-only runs: k mod 4, one digest for every key, *)
(* and the key itself                                                      *)
GrowBuilders ==
  {ScenarioHash, [k \in ScenarioKeys |-> 1], [k \in ScenarioKeys |-> k]}

ScenarioLen(ref) == Cardinality({k \in ScenarioKeys : ref[k] # 0})

(* C21: after every call of a run of inserts (and gets) on a linear-       *)
(* probing map from new(), whatever grows the inserts triggered, every     *)
(* inserted key is retrievable with its last-written value, no other key   *)
(* is, and len() is the number of distinct keys inserted.                  *)
C21_GrowRoundTrip ==
  /\ lpCall.returned
  /\ \A k \in ScenarioKeys : LPget(lp, k).ret = ScenarioGot(lpModel, k)
  /\ lp.len = ScenarioLen(lpModel)

(* the insert of a fourth key has grown the buffer from 4 to 8 slots and   *)
(* the three older keys were re-inserted into the new buffer               *)
C21_Witness ==
  /\ lpCall.op = "insert" /\ lpCall.ret = None
  /\ lp.cap = 2 * INITIAL_CAP /\ lp.len = 4
  /\ \E i \in DOMAIN lp.buf :
       /\ lp.buf[i].tag = "Occupied" /\ lp.buf[i].key # lpCall.key
       /\ i >= INITIAL_CAP

LPIdle == lp = Idle /\ lpModel = EmptyModel /\ lpCall = NoCall

RHIdle == rh = Idle /\ rhModel = EmptyModel /\ rhCall = NoCall

CKIdle == ck = Idle /\ ckModel = EmptyModel /\ ckCall = NoCall

InitLP == LPInit /\ RHIdle /\ CKIdle

InitRH == RHInit /\ LPIdle /\ CKIdle

InitCK == CKInit /\ LPIdle /\ RHIdle

SpecLP == InitLP /\ [][LPNext]_vars

SpecRH == InitRH /\ [][RHNext]_vars

SpecCK == InitCK /\ [][CKNext]_vars

(* Scenario A: a linear-probing map from new(); the five inserts, then     *)
(* gets of any keys.                                                       *)
ScenarioAInsert(value) ==
  /\ lpCall.n < Len(ScenarioInserts)
  /\ LPInsert(ScenarioInserts[lpCall.n + 1], value)

ScenarioAGet(key) ==
  /\ lpCall.n >= Len(ScenarioInserts)
  /\ LPGet(key)

InitScenarioA ==
  /\ lp = LPwith_load_factor(DEF_CRIT_LOAD_FACTOR, ScenarioHash)
  /\ lpModel = ScenarioModel
  /\ lpCall = NoCall
  /\ RHIdle /\ CKIdle

NextScenarioA ==
  \/ \E value \in Vals : ScenarioAInsert(value)
  \/ \E key \in ScenarioKeys : ScenarioAGet(key)

SpecScenarioA == InitScenarioA /\ [][NextScenarioA]_vars

(* Scenario B: a Robin-Hood map from new(); the five inserts, remove(2),   *)
(* then gets of any keys.                                                  *)
ScenarioBInsert(value) ==
  /\ rhCall.n < Len(ScenarioInserts)
  /\ RHInsert(ScenarioInserts[rhCall.n + 1], value)

ScenarioBRemove ==
  /\ rhCall.n = Len(ScenarioInserts)
  /\ RHRemove(2)

ScenarioBGet(key) ==
  /\ rhCall.n > Len(ScenarioInserts)
  /\ RHGet(key)

InitScenarioB ==
  /\ rh = RHwith_capacity_and_load_factor(0, DEF_CRIT_LOAD_FACTOR, ScenarioHash)
  /\ rhModel = ScenarioModel
  /\ rhCall = NoCall
  /\ LPIdle /\ CKIdle

NextScenarioB ==
  \/ \E value \in Vals : ScenarioBInsert(value)
  \/ ScenarioBRemove
  \/ \E key \in ScenarioKeys : ScenarioBGet(key)

SpecScenarioB == InitScenarioB /\ [][NextScenarioB]_vars

(* Insert-only runs: a linear-probing map from new(), inserts of any of    *)
(* six keys and gets of any key, no remove.                                *)
GrowInsert(key, value) == lpCall.n < MaxGrowOps /\ LPInsert(key, value)

GrowGet(key) == lpCall.n < MaxGrowOps /\ LPGet(key)

InitGrow ==
  /\ \E builder \in GrowBuilders :
       lp = LPwith_load_factor(DEF_CRIT_LOAD_FACTOR, builder)
  /\ lpModel = ScenarioModel
  /\ lpCall = NoCall
  /\ RHIdle /\ CKIdle

NextGrow ==
  \/ \E key \in ScenarioKeys, value \in Vals : GrowInsert(key, value)
  \/ \E key \in ScenarioKeys : GrowGet(key)

SpecGrow == InitGrow /\ [][NextGrow]_vars

(* Filling and emptying: one of the three maps under any load factor, with *)
(* inserts and removes only (a get changes no map).                        *)
FillInsert(key, value) ==
  \/ lpCall.n < MaxFillOps /\ LPInsert(key, value)
  \/ rhCall.n < MaxFillOps /\ RHInsert(key, value)
  \/ ckCall.n < MaxFillOps /\ CKInsert(key, value)

FillRemove(key) ==
  \/ lpCall.n < MaxFillOps /\ LPRemove(key)
  \/ rhCall.n < MaxFillOps /\ RHRemove(key)
  \/ ckCall.n < MaxFillOps /\ CKRemove(key)

InitFill == InitLP \/ InitRH \/ InitCK

NextFill ==
  \/ \E key \in Keys, value \in Vals : FillInsert(key, value)
  \/ \E key \in Keys : FillRemove(key)

SpecFill == InitFill /\ [][NextFill]_vars

(* One of the three maps, with its whole life: constructed by new() or     *)
(* with_capacity() (the default load factor), called, cloned and dropped.  *)
InitMaps ==
  /\ InitLP \/ InitRH \/ InitCK
  /\ \A m \in {lp, rh, ck} : m # Idle => m.crit_load_factor = DEF_CRIT_LOAD_FACTOR

NextMaps == LPNext \/ RHNext \/ CKNext \/ LifeNext

SpecMaps == InitMaps /\ [][NextMaps]_vars

====
